---- MODULE Spec2Model ----
(***************************************************************************)
(* Multi-scale residual vector quantizer (VectorQuantizer2, models/quant.py)*)
(*                                                                         *)
(* Representation.                                                         *)
(*  - A feature map of shape (B, C, H, W) is modelled with one channel     *)
(*    (Cvae = 1) as a sequence of B samples, each a sequence of H rows of  *)
(*    W numbers.  Code indices are 0-based, as in the source.              *)
(*  - Arithmetic is exact: feature values are integers, and the outputs of *)
(*    area interpolation (block means) are reduced fractions [n, d].       *)
(*    Floating-point rounding is not modelled.                             *)
(*  - The EMA usage histogram is kept in thousandths (fixed point, the     *)
(*    blend truncates to three decimals).                                  *)
(***************************************************************************)
EXTENDS Integers, Sequences, FiniteSets, TLC

VARIABLES
    using_znorm,        \* self.using_znorm
    share_quant_resi,   \* constructor argument: 0 non-shared, 1 shared, K partially shared
    quant_resi_halves,  \* self.quant_resi_ratio in halves (0: nn.Identity units)
    embedding,          \* self.embedding.weight, [0..V-1 -> value]
    training,           \* self.training
    ema_vocab_hit_SV,   \* registered buffer, [0..S-1 -> [0..V-1 -> thousandths]]
    record_hit,         \* self.record_hit
    dist_initialized,   \* dist.initialized()
    world_size,         \* size of the default process group
    f_BChw,             \* the caller's input tensor
    pc,                 \* which call is running: "idle", "forward", "f_to_idx"
    fw,                 \* locals of the running forward call
    fi,                 \* locals of the running f_to_idxBl_or_fhat call
    pre,                \* module state and input as they were when the last forward call began
    ret_fw,             \* outcome of the last finished forward call on f_BChw
    ret_ut,             \* outcome of the last finished utility call
    v_patch_nums,       \* self.v_patch_nums, the module's scale pyramid (small to large)
    lookups,            \* the units self.quant_resi[...] has returned so far
    handler,            \* the all_reduce handle of the running forward call and its buffer
    ar                  \* the running reconstruction of a caller decoding scale by scale

vars == <<using_znorm, share_quant_resi, quant_resi_halves, embedding, training,
          ema_vocab_hit_SV, record_hit, dist_initialized, world_size,
          f_BChw, pc, fw, fi, pre, ret_fw, ret_ut, v_patch_nums, lookups, handler, ar>>

config_vars == <<using_znorm, share_quant_resi, quant_resi_halves, dist_initialized, world_size,
                 v_patch_nums>>
call_vars == <<lookups, handler, ar>>
module_vars == <<embedding, ema_vocab_hit_SV, record_hit>>

-----------------------------------------------------------------------------
(* Bounds of the model *)

\* a forward pass that updates the histogram is not started once record_hit has
\* reached this value
MaxRecordHit == 3

\* the long-running EMA specification stops calling forward at this many row updates
MaxUpdates == 150

\* refinement policies have at most this many units
MaxUnits == 5

\* scale pyramids have at most this many scales
MaxScales == 5

\* a forward call is made while at most this many abandoned reductions are in flight
MaxOrphans == 2

-----------------------------------------------------------------------------
(* Program constants *)

\* `elif self.record_hit < 100`
FastRegimeLimit == 100

\* the scale pyramid the quantizer is built with unless a specification says otherwise
DefaultPatchNums == <<1, 1, 2>>

-----------------------------------------------------------------------------
(* Numbers *)

Abs(x) == IF x < 0 THEN -x ELSE x

Sign(x) == IF x < 0 THEN -1 ELSE IF x > 0 THEN 1 ELSE 0

RECURSIVE GCD(_, _)
GCD(a, b) == IF b = 0 THEN a ELSE GCD(b, a % b)

\* the fraction n/d (d > 0) in lowest terms
Frac(n, d) ==
    LET g == GCD(Abs(n), d)
    IN  IF n = 0 THEN [n |-> 0, d |-> 1] ELSE [n |-> n \div g, d |-> d \div g]

CeilMulMut(n, pn, pd) == (n * pn) \div pd

\* math.ceil(n * p) for p = pn/pd.  For the token counts of the pyramids modelled
\* (1 and 4) the double product n * p is exact, so this is the value the code computes.
CeilMul(n, pn, pd) == (n * pn + pd - 1) \div pd

RECURSIVE SumSeq(_)
SumSeq(s) == IF s = <<>> THEN 0 ELSE Head(s) + SumSeq(Tail(s))

-----------------------------------------------------------------------------
(* Tensors *)

BOf(t) == Len(t)
HOf(t) == Len(t[1])
WOf(t) == Len(t[1][1])
Shape(t) == <<BOf(t), HOf(t), WOf(t)>>
Numel(t) == BOf(t) * HOf(t) * WOf(t)

\* A sequence given elementwise, built eagerly (TLC evaluates a function constructor
\* lazily, once per application; concatenation makes it an explicit tuple)
Vec(n, El(_)) == [k \in 1..n |-> El(k)] \o <<>>

\* the tensor of shape (B, H, W) with element El(x, i, j)
Tensor(B, H, W, El(_, _, _)) ==
    Vec(B, LAMBDA x : Vec(H, LAMBDA i : Vec(W, LAMBDA j : El(x, i, j))))

\* torch.zeros_like / new_zeros
Zeros(B, H, W) == Tensor(B, H, W, LAMBDA x, i, j : 0)

\* elementwise a + b and a - b of equally shaped tensors
TAdd(a, b) == Tensor(BOf(a), HOf(a), WOf(a), LAMBDA x, i, j : a[x][i][j] + b[x][i][j])
TSub(a, b) == Tensor(BOf(a), HOf(a), WOf(a), LAMBDA x, i, j : a[x][i][j] - b[x][i][j])

\* torch broadcasting of `src` to the shape of `dst` (an in-place op cannot grow dst)
CanBroadcastTo(src, dst) ==
    /\ BOf(src) \in {1, BOf(dst)}
    /\ HOf(src) \in {1, HOf(dst)}
    /\ WOf(src) \in {1, WOf(dst)}

BroadcastTo(src, dst) ==
    Tensor(BOf(dst), HOf(dst), WOf(dst), LAMBDA x, i, j :
        src[IF BOf(src) = 1 THEN 1 ELSE x][IF HOf(src) = 1 THEN 1 ELSE i][IF WOf(src) = 1 THEN 1 ELSE j])

\* out-of-place a + b: both operands broadcast to the common shape
CanBroadcast(a, b) ==
    /\ BOf(a) = BOf(b) \/ BOf(a) = 1 \/ BOf(b) = 1
    /\ HOf(a) = HOf(b) \/ HOf(a) = 1 \/ HOf(b) = 1
    /\ WOf(a) = WOf(b) \/ WOf(a) = 1 \/ WOf(b) = 1

Max2(a, b) == IF a > b THEN a ELSE b

BroadcastAdd(a, b) ==
    LET shp == Zeros(Max2(BOf(a), BOf(b)), Max2(HOf(a), HOf(b)), Max2(WOf(a), WOf(b)))
    IN  TAdd(BroadcastTo(a, shp), BroadcastTo(b, shp))

\* sum of squared differences, the numerator of F.mse_loss(a, b)
SSE(a, b) ==
    SumSeq(Vec(BOf(a), LAMBDA x : SumSeq(Vec(HOf(a), LAMBDA i :
        SumSeq(Vec(WOf(a), LAMBDA j : (a[x][i][j] - b[x][i][j]) * (a[x][i][j] - b[x][i][j])))))))

\* row-major flattening of (B, h, w) to B*h*w entries: permute(0, 2, 3, 1).reshape(-1, C)
FlatIndex(b, i, j, h, w) == (b - 1) * h * w + (i - 1) * w + j

Flatten(t) ==
    Vec(Numel(t), LAMBDA k :
        LET h == HOf(t)
            w == WOf(t)
            b == ((k - 1) \div (h * w)) + 1
            r == (k - 1) % (h * w)
        IN  t[b][(r \div w) + 1][(r % w) + 1])

\* flat.view(B, h, w); defined when Len(flat) = B*h*w
View(flat, B, h, w) == Tensor(B, h, w, LAMBDA b, i, j : flat[FlatIndex(b, i, j, h, w)])

\* F.interpolate(t, size=(ph, pw), mode="area"): adaptive average pooling.  Output cell
\* i of an axis of length n pooled to p covers input cells floor((i-1)n/p)+1 .. ceil(i*n/p).
PoolLo(i, n, p) == (((i - 1) * n) \div p) + 1
PoolHi(i, n, p) == ((i * n) + p - 1) \div p

AreaInterp(t, ph, pw) ==
    Tensor(BOf(t), ph, pw, LAMBDA x, i, j :
        LET rlo == PoolLo(i, HOf(t), ph)
            rhi == PoolHi(i, HOf(t), ph)
            clo == PoolLo(j, WOf(t), pw)
            chi == PoolHi(j, WOf(t), pw)
            tot == SumSeq(Vec(rhi - rlo + 1, LAMBDA r :
                       SumSeq(Vec(chi - clo + 1, LAMBDA c : t[x][rlo + r - 1][clo + c - 1]))))
        IN  Frac(tot, (rhi - rlo + 1) * (chi - clo + 1)))

\* an integer tensor read as fractions (the last scale uses f_rest unchanged)
AsFrac(t) == Tensor(BOf(t), HOf(t), WOf(t), LAMBDA x, i, j : [n |-> t[x][i][j], d |-> 1])

\* F.interpolate(t, size=(H, W), mode="bicubic"), align_corners=False.  Modelled for the
\* axis lengths the pyramids here produce: a source axis of the target's length is
\* copied (every sample point falls on a source cell), and a source axis of length 1 is
\* replicated (all four taps clamp to the single cell and the weights sum to 1).
BicubicSrc(i, n, N) == IF n = N THEN i ELSE 1

Bicubic(t, H, W) ==
    Tensor(BOf(t), H, W, LAMBDA x, i, j : t[x][BicubicSrc(i, HOf(t), H)][BicubicSrc(j, WOf(t), W)])

-----------------------------------------------------------------------------
(* Codebook lookup *)

VocabSize(E) == Cardinality(DOMAIN E)

\* torch.argmin / torch.argmax over the vocabulary: the first index attaining the extremum
ArgMinFirst(score) ==
    CHOOSE v \in DOMAIN score :
        /\ \A u \in DOMAIN score : score[v] <= score[u]
        /\ \A u \in DOMAIN score : u < v => score[u] > score[v]

ArgMaxFirst(score) == ArgMinFirst([v \in DOMAIN score |-> -score[v]])

\* d_no_grad for one position z = n/d against every code e:  z^2 + e^2 - 2 z e,
\* scaled by d^2 (positive, the same for every code)
SqDistScaled(z, e) == z.n * z.n + z.d * z.d * e * e - 2 * z.n * z.d * e

\* F.normalize of a one-channel vector: x / max(|x|, 1e-12)
Normalize1(x) == Sign(x)

\* the code selected for the residual value z (a fraction), under either distance policy
NearestCode(z, E, znorm) ==
    IF znorm
    THEN ArgMaxFirst([v \in DOMAIN E |-> Normalize1(z.n) * Normalize1(E[v])])
    ELSE ArgMinFirst([v \in DOMAIN E |-> SqDistScaled(z, E[v])])

\* idx_N: one code per row of rest_NC
NearestIdx(rest_N, E, znorm) == Vec(Len(rest_N), LAMBDA k : NearestCode(rest_N[k], E, znorm))

\* idx_N.bincount(minlength=vocab_size)
Bincount(idx_N, E) == [v \in DOMAIN E |-> Cardinality({k \in 1..Len(idx_N) : idx_N[k] = v})]

\* self.embedding(idx_Bhw).permute(0, 3, 1, 2)
Embed(idx_Bhw, E) ==
    Tensor(BOf(idx_Bhw), HOf(idx_Bhw), WOf(idx_Bhw), LAMBDA x, i, j : E[idx_Bhw[x][i][j]])

-----------------------------------------------------------------------------
(* Double-precision arithmetic.  A non-negative double is [m, e] with value m * 2^e;
   m is a natural number of at most 53 bits, held as limbs of 15 bits, least
   significant first.  Every operation rounds to nearest, ties to even. *)

LimbBits == 15
LimbBase == 32768
MantissaBits == 53

RECURSIVE Pow2(_)
Pow2(n) == IF n = 0 THEN 1 ELSE 2 * Pow2(n - 1)

RECURSIVE LimbsOf(_)
LimbsOf(n) == IF n = 0 THEN <<>> ELSE <<n % LimbBase>> \o LimbsOf(n \div LimbBase)

RECURSIVE Trim(_)
Trim(a) == IF a = <<>> \/ a[Len(a)] # 0 THEN a ELSE Trim(SubSeq(a, 1, Len(a) - 1))

Limb(a, i) == IF i <= Len(a) THEN a[i] ELSE 0

RECURSIVE AddFrom(_, _, _, _)
AddFrom(a, b, i, c) ==
    IF i > Len(a) /\ i > Len(b) THEN (IF c = 0 THEN <<>> ELSE <<c>>)
    ELSE <<(Limb(a, i) + Limb(b, i) + c) % LimbBase>> \o
         AddFrom(a, b, i + 1, (Limb(a, i) + Limb(b, i) + c) \div LimbBase)

AddLimbs(a, b) == AddFrom(a, b, 1, 0)

RECURSIVE SubFrom(_, _, _, _)
SubFrom(a, b, i, c) ==
    IF i > Len(a) THEN <<>>
    ELSE <<(Limb(a, i) - Limb(b, i) - c + LimbBase) % LimbBase>> \o
         SubFrom(a, b, i + 1, IF Limb(a, i) - Limb(b, i) - c < 0 THEN 1 ELSE 0)

\* a - b for a >= b
SubLimbs(a, b) == Trim(SubFrom(a, b, 1, 0))

RECURSIVE CmpFrom(_, _, _)
CmpFrom(a, b, i) ==
    IF i = 0 THEN 0
    ELSE IF Limb(a, i) # Limb(b, i) THEN Limb(a, i) - Limb(b, i)
    ELSE CmpFrom(a, b, i - 1)

\* negative, zero or positive as a < b, a = b or a > b
CmpLimbs(a, b) == CmpFrom(a, b, Max2(Len(a), Len(b)))

RECURSIVE MulFrom(_, _, _, _)
MulFrom(a, k, i, c) ==
    IF i > Len(a) THEN (IF c = 0 THEN <<>> ELSE <<c>>)
    ELSE <<(a[i] * k + c) % LimbBase>> \o MulFrom(a, k, i + 1, (a[i] * k + c) \div LimbBase)

\* a * k for 0 <= k < LimbBase
MulSmall(a, k) == Trim(MulFrom(a, k, 1, 0))

DivStep(hi, limb, d) ==
    [q |-> <<(hi.r * LimbBase + limb) \div d>> \o hi.q, r |-> (hi.r * LimbBase + limb) % d]

RECURSIVE DivFrom(_, _, _)
DivFrom(a, d, i) ==
    IF i > Len(a) THEN [q |-> <<>>, r |-> 0] ELSE DivStep(DivFrom(a, d, i + 1), a[i], d)

\* quotient and remainder of a by d for 0 < d < LimbBase
DivSmall(a, d) == DivFrom(a, d, 1)

\* a * 2^n
Shl(a, n) ==
    IF a = <<>> THEN <<>>
    ELSE [i \in 1..(n \div LimbBits) |-> 0] \o MulSmall(a, Pow2(n % LimbBits))

ShrOf(a, n, qr) ==
    [q |-> Trim(qr.q),
     sticky |-> qr.r # 0 \/ \E i \in 1..(n \div LimbBits) : Limb(a, i) # 0]

\* a shifted right by n bits, and whether a non-zero bit was shifted out
Shr(a, n) ==
    ShrOf(a, n, DivSmall(SubSeq(a, (n \div LimbBits) + 1, Len(a)), Pow2(n % LimbBits)))

RECURSIVE IntBits(_)
IntBits(n) == IF n = 0 THEN 0 ELSE 1 + IntBits(n \div 2)

BitLen(a) == IF a = <<>> THEN 0 ELSE LimbBits * (Len(a) - 1) + IntBits(a[Len(a)])

\* s is the value shifted so that its lowest bit is the first bit to drop
RoundOf(s, e, drop, sticky) ==
    LET hi == Trim(DivSmall(s.q, 2).q)
        up == s.q[1] % 2 = 1 /\ (sticky \/ s.sticky \/ Limb(hi, 1) % 2 = 1)
    IN  [m |-> IF up THEN AddLimbs(hi, <<1>>) ELSE hi, e |-> e + drop]

\* the double nearest to m * 2^e (plus a non-zero part below its last bit when sticky)
Round53(m, e, sticky) ==
    IF BitLen(m) <= MantissaBits THEN [m |-> m, e |-> e]
    ELSE RoundOf(Shr(m, BitLen(m) - MantissaBits - 1), e, BitLen(m) - MantissaBits, sticky)

FromInt(n) == [m |-> LimbsOf(n), e |-> 0]

MinE(x, y) == IF x.e < y.e THEN x.e ELSE y.e

Aligned(x, y) == Shl(x.m, x.e - MinE(x, y))

\* x + y
FAdd(x, y) == Round53(Trim(AddLimbs(Aligned(x, y), Aligned(y, x))), MinE(x, y), FALSE)

\* negative, zero or positive as x < y, x = y or x > y
FCmp(x, y) == CmpLimbs(Aligned(x, y), Aligned(y, x))

\* abs(x - y)
FAbsDiff(x, y) ==
    Round53(IF FCmp(x, y) >= 0 THEN SubLimbs(Aligned(x, y), Aligned(y, x))
            ELSE SubLimbs(Aligned(y, x), Aligned(x, y)), MinE(x, y), FALSE)

\* k * x for an integer 0 <= k < LimbBase
FMulInt(k, x) == Round53(MulSmall(x.m, k), x.e, FALSE)

FDivQ(qr, e) == Round53(Trim(qr.q), e, qr.r # 0)

\* x / d for an integer 0 < d < LimbBase
FDivInt(x, d) == FDivQ(DivSmall(Shl(x.m, 60), d), x.e - 60)

-----------------------------------------------------------------------------
(* Residual refinement units *)

\* Conv2d weights of unit k (learned parameters; any values would do.  The centre weight
\* is odd and the others and the bias even, so that the 0.5 blend of Phi stays integral)
PhiWeight(k) == <<<<0, 2, 0>>, <<2, 2 * k + 1, -2>>, <<0, 0, 0>>>>
PhiBias(k) == 2 * k

\* zero padding of padding = ks // 2 = 1
Padded(s, i, j) == IF i \in 1..Len(s) /\ j \in 1..Len(s[1]) THEN s[i][j] ELSE 0

\* nn.Conv2d(kernel_size=3, stride=1, padding=1) on one sample (cross-correlation)
Conv3x3(k, s) ==
    Vec(Len(s), LAMBDA i : Vec(Len(s[1]), LAMBDA j :
        PhiBias(k) + SumSeq(Vec(3, LAMBDA a : SumSeq(Vec(3, LAMBDA c :
            PhiWeight(k)[a][c] * Padded(s, i + a - 2, j + c - 2)))))))

\* Phi.forward: h * (1 - resi_ratio) + conv(h) * resi_ratio, resi_ratio = halves/2;
\* nn.Identity when abs(quant_resi) <= 1e-6
PhiApply(k, halves, h_BChw) ==
    IF halves = 0 THEN h_BChw
    ELSE Vec(BOf(h_BChw), LAMBDA x :
            LET cv == Conv3x3(k, h_BChw[x])
            IN  Vec(HOf(h_BChw), LAMBDA i : Vec(WOf(h_BChw), LAMBDA j :
                    ((2 - halves) * h_BChw[x][i][j] + halves * cv[i][j]) \div 2)))

\* number of units of the policy: PhiNonShared has default_qresi_counts or
\* len(v_patch_nums) units, PhiShared one, PhiPartiallyShared share_quant_resi
UnitCount(share) == IF share = 0 THEN Len(v_patch_nums) ELSE share

\* np.linspace(start, stop, num): step = (stop - start) / (num - 1), entry k is
\* k * step + start, and the last entry is stop itself
Linspace(start, stop, num) ==
    Vec(num, LAMBDA k :
        IF num > 1 /\ k = num THEN stop
        ELSE IF num = 1 THEN FAdd(FMulInt(0, FAbsDiff(stop, start)), start)
        ELSE FAdd(FMulInt(k - 1, FDivInt(FAbsDiff(stop, start), num - 1)), start))

\* self.ticks: np.linspace(1 / 3 / K, 1 - 1 / 3 / K, K) if K == 4
\* else np.linspace(1 / 2 / K, 1 - 1 / 2 / K, K)
TickC(K) == IF K = 4 THEN 3 ELSE 2
TickStart(K) == FDivInt(FDivInt(FromInt(1), TickC(K)), K)
Ticks(K) == Linspace(TickStart(K), FAbsDiff(FromInt(1), TickStart(K)), K)

\* np.argmin: the first index of the least entry, 0-based
RECURSIVE ArgMinFrom(_, _, _)
ArgMinFrom(d, k, best) ==
    IF k > Len(d) THEN best - 1
    ELSE ArgMinFrom(d, k + 1, IF FCmp(d[k], d[best]) < 0 THEN k ELSE best)

\* np.abs(self.ticks - at_from_0_to_1) for at_from_0_to_1 = tn / td
TickDistances(K, tn, td) ==
    Vec(K, LAMBDA k : FAbsDiff(Ticks(K)[k], FDivInt(FromInt(tn), td)))

\* the lookups of every policy size and position the model uses, computed once
TickUnit ==
    Vec(MaxUnits, LAMBDA K : Vec(MaxScales - 1, LAMBDA td : Vec(td + 1, LAMBDA i :
        ArgMinFrom(TickDistances(K, i - 1, td), 1, 1))))

\* np.argmin(np.abs(self.ticks - at_from_0_to_1)).item() for at_from_0_to_1 = tn / td
NearestTick(K, tn, td) == TickUnit[K][td][tn + 1]

QuantResiIndexMut(share, si, SN) ==
    IF share <= 1 THEN 0 ELSE NearestTick(UnitCount(share), si, SN - 1)

\* self.quant_resi[si / (SN - 1)]: the unit applied at scale si of SN (SN > 1)
QuantResiIndex(share, si, SN) ==
    IF share = 1 THEN 0 ELSE NearestTick(UnitCount(share), si, SN - 1)

QuantResi(share, halves, si, SN, h_BChw) == PhiApply(QuantResiIndex(share, si, SN), halves, h_BChw)

-----------------------------------------------------------------------------
(* Configurations, environments and inputs the model draws from *)

\* constructor arguments and initial embedding weights
Configs ==
    { [using_znorm |-> FALSE, share_quant_resi |-> 0, quant_resi_halves |-> 1,
       embedding |-> (0 :> -2 @@ 1 :> 2)],
      [using_znorm |-> TRUE,  share_quant_resi |-> 2, quant_resi_halves |-> 1,
       embedding |-> (0 :> 2 @@ 1 :> -2)],
      [using_znorm |-> FALSE, share_quant_resi |-> 1, quant_resi_halves |-> 0,
       embedding |-> (0 :> 1 @@ 1 :> 1 @@ 2 :> -3)] }

\* the distributed runtime: not initialized, or a process group of two ranks
Envs == { [init |-> FALSE, ws |-> 0], [init |-> TRUE, ws |-> 2] }

\* feature maps handed to the quantizer: one sample of 2x2 (the pyramid's resolution),
\* one sample of 1x2 or 1x1 (a resolution the pyramid does not end in), two samples of 2x2
FullMaps == { <<<<1, 1>>, <<1, 1>>>>, <<<<-3, 1>>, <<1, 1>>>>,
              <<<<-3, -3>>, <<1, -3>>>>, <<<<1, -3>>, <<-3, 5>>>> }

Inputs ==
    {<<m>> : m \in FullMaps} \cup { <<<<<<-3, 1>>>>>>, <<<<<<1>>>>>> }
    \cup { <<<<<<1, 1>>, <<-3, 1>>>>, <<<<-3, -3>>, <<-3, -3>>>>>>,
           <<<<<<-3, -3>>, <<-3, -3>>>>, <<<<-3, -3>>, <<-3, -3>>>>>> }

\* the code every token of the other ranks hits in one forward pass
PeerCodes == {0, 1}

-----------------------------------------------------------------------------
(* forward: the training path *)

SN == Len(v_patch_nums)

NoRet == [op |-> "none", err |-> "none"]

FwIdle == [si |-> 0]

\* no lookup made yet, no reduction issued yet, no decoding under way
NoLookups == [last |-> NoRet, seen |-> {}]
NoHandler == [state |-> "none", at |-> "lookup", buffer |-> <<>>, orphans |-> 0]
ArIdle == [op |-> "none", si |-> 0]
FiIdle == [si |-> 0]

\* f_rest = f_no_grad.clone(): the residual does not share storage with the input
FRestSharesInput == FALSE

\* tdist.all_reduce(hit_V): the sum over the ranks.  Every other rank quantizes as many
\* tokens as this one; `peer` is the code its tokens hit
AllReduceSum(hit_V, peer, n_tokens, ws) ==
    [v \in DOMAIN hit_V |-> hit_V[v] + (ws - 1) * (IF v = peer THEN n_tokens ELSE 0)]

\* `if self.training: if dist.initialized(): handler = tdist.all_reduce(...)`
IssuesReduce(train, init) == train /\ init

\* `if self.training and dist.initialized():` guarding handler.wait() and the EMA update
UpdatesEmaMut(train, init) == init
UpdatesEma(train, init) == train /\ init

\* the three-regime blend of one histogram row (thousandths), given record_hit
EmaRowOffByOne(hits_so_far, row, hit_V) ==
    IF hits_so_far = 0 THEN [v \in DOMAIN row |-> 1000 * hit_V[v]]
    ELSE IF hits_so_far <= FastRegimeLimit
         THEN [v \in DOMAIN row |-> (9 * row[v] + 1000 * hit_V[v]) \div 10]
         ELSE [v \in DOMAIN row |-> (99 * row[v] + 1000 * hit_V[v]) \div 100]
EmaRow(hits_so_far, row, hit_V) ==
    IF hits_so_far = 0 THEN [v \in DOMAIN row |-> 1000 * hit_V[v]]
    ELSE IF hits_so_far < FastRegimeLimit
         THEN [v \in DOMAIN row |-> (9 * row[v] + 1000 * hit_V[v]) \div 10]
         ELSE [v \in DOMAIN row |-> (99 * row[v] + 1000 * hit_V[v]) \div 100]

\* `f_hat = f_hat + h_BChw` and `f_rest -= h_BChw` (lines 158-159)
Accumulate(f_hat, h_BChw) == BroadcastAdd(f_hat, h_BChw)

SubResidualMut(f_rest, h_BChw) == f_rest
SubResidual(f_rest, h_BChw) == TSub(f_rest, BroadcastTo(h_BChw, f_rest))

\* module.train(mode) / module.eval()
SetTraining ==
    /\ pc = "idle"
    /\ training' = ~training
    /\ ret_fw' = NoRet
    /\ ret_ut' = NoRet
    /\ UNCHANGED <<config_vars, call_vars, module_vars, f_BChw, pc, fw, fi, pre>>

\* the caller obtains a feature map
NewInputFrom(inputs) ==
    /\ pc = "idle"
    /\ f_BChw' \in inputs
    /\ ret_fw' = NoRet
    /\ ret_ut' = NoRet
    /\ UNCHANGED <<config_vars, call_vars, module_vars, training, pc, fw, fi, pre>>

NewInput == NewInputFrom(Inputs)

\* forward(f_BChw, ret_usages): lines 93-107, up to the loop
ForwardCallOn(limit, peers) ==
    /\ pc = "idle"
    /\ record_hit < limit \/ ~UpdatesEma(training, dist_initialized)
    /\ \E ru \in BOOLEAN :
       \E pk \in (IF IssuesReduce(training, dist_initialized) /\ world_size > 1 THEN peers ELSE {0}) :
          fw' = [si |-> 0, ret_usages |-> ru, peer |-> pk,
                 f_rest |-> f_BChw, f_hat |-> Zeros(BOf(f_BChw), HOf(f_BChw), WOf(f_BChw)),
                 vocab_hit_V |-> [v \in DOMAIN embedding |-> 0],
                 loss_num |-> 0, hs |-> <<>>, hits |-> <<>>, local_hits |-> <<>>, reduces |-> 0, waits |-> 0]
    /\ pre' = [ema |-> ema_vocab_hit_SV, record_hit |-> record_hit, embedding |-> embedding,
               f |-> f_BChw, training |-> training]
    /\ pc' = "forward"
    /\ ret_fw' = NoRet
    /\ ret_ut' = NoRet
    /\ UNCHANGED <<config_vars, call_vars, module_vars, training, f_BChw, fi>>

ForwardCall == ForwardCallOn(MaxRecordHit, PeerCodes)

\* one iteration of `for si, pn in enumerate(self.v_patch_nums)`: lines 108-173
ForwardScale ==
    /\ pc = "forward"
    /\ fw.si < SN
    /\ LET si      == fw.si
           pn      == v_patch_nums[si + 1]
           last    == si = SN - 1
           B       == BOf(f_BChw)
           H       == HOf(f_BChw)
           W       == WOf(f_BChw)
           rest    == IF ~last THEN AreaInterp(fw.f_rest, pn, pn) ELSE AsFrac(fw.f_rest)
           idx_N   == NearestIdx(Flatten(rest), embedding, using_znorm)
           local   == Bincount(idx_N, embedding)
           issue   == IssuesReduce(training, dist_initialized)
           hit_V   == IF issue THEN AllReduceSum(local, fw.peer, Len(idx_N), world_size) ELSE local
           viewOK  == Len(idx_N) = B * pn * pn
           idx_Bhw == View(idx_N, B, pn, pn)
           h0      == IF ~last THEN Bicubic(Embed(idx_Bhw, embedding), H, W) ELSE Embed(idx_Bhw, embedding)
           h       == QuantResi(share_quant_resi, quant_resi_halves, si, SN, h0)
           f_hat2  == Accumulate(fw.f_hat, h)
           f_rest2 == SubResidual(fw.f_rest, h)
           upd     == UpdatesEma(training, dist_initialized)
           err     == IF ~viewOK THEN "RuntimeError"
                      ELSE IF SN = 1 THEN "ZeroDivisionError"
                      ELSE IF ~CanBroadcast(fw.f_hat, h) \/ ~CanBroadcastTo(h, fw.f_rest) THEN "RuntimeError"
                      ELSE "none"
       IN  IF err # "none"
           THEN /\ pc' = "idle"
                /\ ret_fw' = [op |-> "forward", err |-> err, at |-> si, training |-> training,
                              reduces |-> fw.reduces + (IF issue THEN 1 ELSE 0), waits |-> fw.waits]
                /\ fw' = FwIdle
                /\ UNCHANGED <<module_vars, f_BChw>>
           ELSE /\ fw' = [fw EXCEPT !.si = si + 1, !.f_rest = f_rest2, !.f_hat = f_hat2,
                                    !.vocab_hit_V = [v \in DOMAIN embedding |-> @[v] + hit_V[v]],
                                    !.loss_num = @ + SSE(f_hat2, IF FRestSharesInput THEN f_rest2 ELSE f_BChw),
                                    !.hs = Append(@, h), !.hits = Append(@, hit_V),
                                    !.local_hits = Append(@, local),
                                    !.reduces = @ + (IF issue THEN 1 ELSE 0),
                                    !.waits = @ + (IF upd THEN 1 ELSE 0)]
                /\ f_BChw' = IF FRestSharesInput THEN f_rest2 ELSE f_BChw
                /\ IF upd
                   THEN /\ ema_vocab_hit_SV' = [ema_vocab_hit_SV EXCEPT
                                                   ![si] = EmaRow(record_hit, @, hit_V)]
                        /\ record_hit' = record_hit + 1
                   ELSE UNCHANGED <<ema_vocab_hit_SV, record_hit>>
                /\ UNCHANGED <<embedding, pc, ret_fw>>
    /\ UNCHANGED <<config_vars, call_vars, training, fi, pre, ret_ut>>

\* tdist.get_world_size(): torch raises when the default process group is not initialized
WorldSizeRaises(init) == ~init

\* line 187: (self.ema_vocab_hit_SV[si] >= margin) with
\* margin = world_size * (numel / C) / vocab_size * 0.08, both sides scaled by 1000 * V
UsedMut(ema_v, ws, numel, V) == ema_v * V >= 80 * numel
Used(ema_v, ws, numel, V) == ema_v * V >= 80 * ws * numel

\* .float().mean().item() * 100 over the row of scale s
Usage(ema, s, ws, numel) ==
    LET V == Cardinality(DOMAIN ema[s])
    IN  Frac(100 * Cardinality({v \in DOMAIN ema[s] : Used(ema[s][v], ws, numel, V)}), V)

\* `usages = [...] if ret_usages else None`
ReturnsUsages(ret_usages) == ret_usages

\* mean_vq_loss: each scale adds beta * mse + mse with beta = 0.25, scaled by 1 / SN
MeanVqLoss(loss_num, numel) == Frac(5 * loss_num, 4 * numel * SN)

\* lines 175-192: after the loop
ForwardReturn ==
    /\ pc = "forward"
    /\ fw.si = SN
    /\ pc' = "idle"
    /\ fw' = FwIdle
    /\ IF WorldSizeRaises(dist_initialized)
       THEN ret_fw' = [op |-> "forward", err |-> "ValueError", at |-> SN, training |-> training,
                       reduces |-> fw.reduces, waits |-> fw.waits,
                       f_hat |-> TAdd(TSub(fw.f_hat, f_BChw), f_BChw),
                       hs |-> fw.hs, hits |-> fw.hits, local_hits |-> fw.local_hits, peer |-> fw.peer]
       ELSE ret_fw' = [op |-> "forward", err |-> "none", at |-> SN, training |-> training,
                       reduces |-> fw.reduces, waits |-> fw.waits,
                       f_hat |-> TAdd(TSub(fw.f_hat, f_BChw), f_BChw),
                       has_usages |-> ReturnsUsages(fw.ret_usages),
                       usages |-> IF ReturnsUsages(fw.ret_usages)
                                  THEN [s \in 1..SN |-> Usage(ema_vocab_hit_SV, s - 1, world_size, Numel(f_BChw))]
                                  ELSE <<>>,
                       mean_vq_loss |-> MeanVqLoss(fw.loss_num, Numel(f_BChw)),
                       ret_usages |-> fw.ret_usages,
                       hs |-> fw.hs, hits |-> fw.hits, local_hits |-> fw.local_hits, peer |-> fw.peer]
    /\ UNCHANGED <<config_vars, call_vars, module_vars, training, f_BChw, fi, pre, ret_ut>>

-----------------------------------------------------------------------------
(* f_to_idxBl_or_fhat *)

\* A supplied pyramid entry is an int or an (h, w) pair
IntEntry(n) == [is_int |-> TRUE, n |-> n, h |-> n, w |-> n]
PairEntry(h, w) == [is_int |-> FALSE, n |-> 0, h |-> h, w |-> w]

\* `(pn, pn) if isinstance(pn, int) else (pn[0], pn[1])`
PatchHw(e) == IF e.is_int THEN <<e.n, e.n>> ELSE <<e.h, e.w>>

\* `v_patch_nums or self.v_patch_nums`: None and the empty sequence select the default
PatchHws(supplied) ==
    LET src == IF supplied = <<>> THEN Vec(Len(v_patch_nums), LAMBDA k : IntEntry(v_patch_nums[k]))
               ELSE supplied
    IN  Vec(Len(src), LAMBDA k : PatchHw(src[k]))

\* the v_patch_nums arguments the model passes (<<>> is None)
Pyramids ==
    { <<>>,
      <<IntEntry(1), IntEntry(2)>>,
      <<PairEntry(1, 2), PairEntry(2, 2)>>,
      <<IntEntry(1), PairEntry(2, 1), IntEntry(1), IntEntry(2)>>,
      <<IntEntry(2)>>,
      <<IntEntry(1), IntEntry(1)>> }

\* line 255: assert patch_hws[-1][0] == H and patch_hws[-1][1] == W
LastScaleMatches(patch_hws, H, W) ==
    patch_hws[Len(patch_hws)][1] = H /\ patch_hws[Len(patch_hws)][2] = W

\* lines 244-257: up to the loop
FToIdxCall ==
    /\ pc = "idle"
    /\ ret_ut = NoRet
    /\ \E to_fhat \in BOOLEAN, supplied \in Pyramids :
          LET patch_hws == PatchHws(supplied)
          IN  IF LastScaleMatches(patch_hws, HOf(f_BChw), WOf(f_BChw))
              THEN /\ pc' = "f_to_idx"
                   /\ fi' = [si |-> 0, to_fhat |-> to_fhat, supplied |-> supplied,
                             patch_hws |-> patch_hws, f_rest |-> f_BChw,
                             f_hat |-> Zeros(BOf(f_BChw), HOf(f_BChw), WOf(f_BChw)),
                             f_hat_or_idx_Bl |-> <<>>, hs |-> <<>>]
                   /\ ret_ut' = NoRet
              ELSE /\ pc' = "idle"
                   /\ fi' = FiIdle
                   /\ ret_ut' = [op |-> "f_to_idx", err |-> "AssertionError", at |-> 0,
                                 to_fhat |-> to_fhat, supplied |-> supplied, patch_hws |-> patch_hws]
    /\ UNCHANGED <<config_vars, call_vars, module_vars, training, f_BChw, fw, pre, ret_fw>>

\* idx_N.reshape(B, ph * pw)
ReshapeBl(idx_N, B, L) == Vec(B, LAMBDA b : Vec(L, LAMBDA k : idx_N[(b - 1) * L + k]))

\* one iteration of `for si, (ph, pw) in enumerate(patch_hws)`: lines 260-298
FToIdxScale ==
    /\ pc = "f_to_idx"
    /\ fi.si < Len(fi.patch_hws)
    /\ LET si      == fi.si
           n       == Len(fi.patch_hws)
           ph      == fi.patch_hws[si + 1][1]
           pw      == fi.patch_hws[si + 1][2]
           last    == si = n - 1
           B       == BOf(f_BChw)
           H       == HOf(f_BChw)
           W       == WOf(f_BChw)
           z       == IF ~last THEN AreaInterp(fi.f_rest, ph, pw) ELSE AsFrac(fi.f_rest)
           idx_N   == NearestIdx(Flatten(z), embedding, using_znorm)
           idx_Bhw == View(idx_N, B, ph, pw)
           h0      == IF ~last THEN Bicubic(Embed(idx_Bhw, embedding), H, W) ELSE Embed(idx_Bhw, embedding)
           h       == QuantResi(share_quant_resi, quant_resi_halves, si, n, h0)
           f_hat2  == TAdd(fi.f_hat, h)
           f_rest2 == TSub(fi.f_rest, h)
       IN  IF n = 1
           THEN /\ pc' = "idle"
                /\ fi' = FiIdle
                /\ ret_ut' = [op |-> "f_to_idx", err |-> "ZeroDivisionError", at |-> si,
                              to_fhat |-> fi.to_fhat, supplied |-> fi.supplied, patch_hws |-> fi.patch_hws]
           ELSE /\ fi' = [fi EXCEPT !.si = si + 1, !.f_rest = f_rest2, !.f_hat = f_hat2,
                                    !.hs = Append(@, h),
                                    !.f_hat_or_idx_Bl =
                                        Append(@, IF fi.to_fhat THEN f_hat2 ELSE ReshapeBl(idx_N, B, ph * pw))]
                /\ UNCHANGED <<pc, ret_ut>>
    /\ UNCHANGED <<config_vars, call_vars, module_vars, training, f_BChw, fw, pre, ret_fw>>

\* line 300: return f_hat_or_idx_Bl
FToIdxReturn ==
    /\ pc = "f_to_idx"
    /\ fi.si = Len(fi.patch_hws)
    /\ pc' = "idle"
    /\ fi' = FiIdle
    /\ ret_ut' = [op |-> "f_to_idx", err |-> "none", at |-> fi.si,
                  to_fhat |-> fi.to_fhat, supplied |-> fi.supplied, patch_hws |-> fi.patch_hws,
                  list |-> fi.f_hat_or_idx_Bl, hs |-> fi.hs]
    /\ UNCHANGED <<config_vars, call_vars, module_vars, training, f_BChw, fw, pre, ret_fw>>

-----------------------------------------------------------------------------
(* Utilities over per-scale index lists *)

\* resolution of scale si (0-based) of the module's pyramid
Pn(si) == v_patch_nums[si + 1]
HW == v_patch_nums[Len(v_patch_nums)]

\* self.embedding(idx_Bl).transpose_(1, 2).view(B, C, pn, pn): the embeddings of a
\* (B_si, L) index tensor laid out as B maps of pn x pn; defined when B_si * L = B * pn * pn
CanViewAs(idx_Bl, B, pn) == Len(idx_Bl) * Len(idx_Bl[1]) = B * pn * pn

FlattenBl(idx_Bl) ==
    Vec(Len(idx_Bl) * Len(idx_Bl[1]), LAMBDA k :
        idx_Bl[((k - 1) \div Len(idx_Bl[1])) + 1][((k - 1) % Len(idx_Bl[1])) + 1])

LookupAs(idx_Bl, B, pn, E) == Embed(View(FlattenBl(idx_Bl), B, pn, pn), E)

\* the per-scale maps a caller builds from an index list, each with its entry's own batch size
LookupAll(idxs, E) == Vec(Len(idxs), LAMBDA k : LookupAs(idxs[k], Len(idxs[k]), Pn(k - 1), E))

\* .view(B, C, -1).transpose(1, 2): a (B, h, w) map as B sequences of h*w tokens
Tokens(t) == Vec(BOf(t), LAMBDA b : Vec(HOf(t) * WOf(t), LAMBDA k :
                 t[b][((k - 1) \div WOf(t)) + 1][((k - 1) % WOf(t)) + 1]))

\* torch.cat(pieces, dim=1)
RECURSIVE CatDim1(_)
CatDim1(pieces) ==
    IF Len(pieces) = 1 THEN pieces[1]
    ELSE LET rest == CatDim1(Tail(pieces))
         IN  Vec(Len(pieces[1]), LAMBDA b : pieces[1][b] \o rest[b])

\* embed_to_fhat, all_to_max_scale=True: lines 204-214, from scale si on
RECURSIVE EmbedToFhatMax(_, _, _, _, _, _)
EmbedToFhatMax(ms_h, share, halves, si, f_hat, ls) ==
    IF si = SN THEN [err |-> "none", at |-> si, f_hat |-> f_hat, ls |-> ls]
    ELSE IF SN = 1 THEN [err |-> "ZeroDivisionError", at |-> si, f_hat |-> f_hat, ls |-> ls]
    ELSE LET h0 == IF si < SN - 1 THEN Bicubic(ms_h[si + 1], HW, HW) ELSE ms_h[si + 1]
             h  == QuantResi(share, halves, si, SN, h0)
         IN  IF ~CanBroadcastTo(h, f_hat)
             THEN [err |-> "RuntimeError", at |-> si, f_hat |-> f_hat, ls |-> ls]
             ELSE LET f_hat2 == TAdd(f_hat, BroadcastTo(h, f_hat))
                  IN  EmbedToFhatMax(ms_h, share, halves, si + 1, f_hat2, Append(ls, f_hat2))

\* embed_to_fhat, all_to_max_scale=False: lines 218-232, from scale si on
RECURSIVE EmbedToFhatOwn(_, _, _, _, _, _)
EmbedToFhatOwn(ms_h, share, halves, si, f_hat, ls) ==
    IF si = SN THEN [err |-> "none", at |-> si, f_hat |-> f_hat, ls |-> ls]
    ELSE IF SN = 1 THEN [err |-> "ZeroDivisionError", at |-> si, f_hat |-> f_hat, ls |-> ls]
    ELSE LET up == Bicubic(f_hat, Pn(si), Pn(si))
             h  == QuantResi(share, halves, si, SN, ms_h[si + 1])
         IN  IF ~CanBroadcastTo(h, up)
             THEN [err |-> "RuntimeError", at |-> si, f_hat |-> f_hat, ls |-> ls]
             ELSE LET f_hat2 == TAdd(up, BroadcastTo(h, up))
                  IN  EmbedToFhatOwn(ms_h, share, halves, si + 1, f_hat2, Append(ls, f_hat2))

\* embed_to_fhat(ms_h_BChw, all_to_max_scale, last_one): the outcome; the value returned
\* is f_hat when last_one and the list ls otherwise
EmbedToFhatMut(ms_h, share, halves, all_to_max_scale) ==
    EmbedToFhatOwn(ms_h, share, halves, 0, Zeros(BOf(ms_h[1]), Pn(0), Pn(0)), <<>>)

EmbedToFhat(ms_h, share, halves, all_to_max_scale) ==
    LET B == BOf(ms_h[1])
    IN  IF all_to_max_scale
        THEN EmbedToFhatMax(ms_h, share, halves, 0, Zeros(B, HW, HW), <<>>)
        ELSE EmbedToFhatOwn(ms_h, share, halves, 0, Zeros(B, Pn(0), Pn(0)), <<>>)

\* idxBl_to_ns_input: lines 313-327, from scale si on
RECURSIVE NsInputLoop(_, _, _, _, _, _, _)
NsInputLoop(gt, E, share, halves, si, f_hat, next_scales) ==
    IF si = SN - 1 THEN [err |-> "none", at |-> si, next_scales |-> next_scales]
    ELSE LET B == Len(gt[1]) IN
         IF ~CanViewAs(gt[si + 1], B, Pn(si))
         THEN [err |-> "RuntimeError", at |-> si, next_scales |-> next_scales]
         ELSE LET h      == Bicubic(LookupAs(gt[si + 1], B, Pn(si), E), HW, HW)
                  f_hat2 == TAdd(f_hat, QuantResi(share, halves, si, SN, h))
              IN  NsInputLoop(gt, E, share, halves, si + 1, f_hat2,
                              Append(next_scales, Tokens(AreaInterp(f_hat2, Pn(si + 1), Pn(si + 1)))))

IdxBlToNsInputMut(gt, E, share, halves) ==
    LET B == Len(gt[1])
        r == NsInputLoop(gt, E, share, halves, 0,
                         IF CanViewAs(gt[SN], B, HW) THEN LookupAs(gt[SN], B, HW, E)
                         ELSE Zeros(B, HW, HW), <<>>)
    IN  [err |-> r.err, at |-> r.at,
         has_value |-> r.err = "none" /\ Len(r.next_scales) > 0,
         value |-> IF r.err = "none" /\ Len(r.next_scales) > 0 THEN CatDim1(r.next_scales) ELSE <<>>]

\* idxBl_to_ns_input(gt_ms_idx_Bl); has_value is FALSE for the None result
IdxBlToNsInput(gt, E, share, halves) ==
    LET r == NsInputLoop(gt, E, share, halves, 0, Zeros(Len(gt[1]), HW, HW), <<>>)
    IN  [err |-> r.err, at |-> r.at,
         has_value |-> r.err = "none" /\ Len(r.next_scales) > 0,
         value |-> IF r.err = "none" /\ Len(r.next_scales) > 0 THEN CatDim1(r.next_scales) ELSE <<>>]

\* torch.multinomial(torch.ones(n), k, replacement=False): k distinct positions of 0..n-1,
\* in any order
Multinomial(n, k) == { d \in [1..k -> 0..(n - 1)] : \A a, b \in 1..k : a # b => d[a] # d[b] }

\* the draws of one idxBl_to_mask_input call, one per scale 1..SN-1, before the offset
MaskDraws(pm_n, pm_d) ==
    { d \in [1..(SN - 1) -> UNION { Multinomial(Pn(si) * Pn(si), CeilMul(Pn(si) * Pn(si), pm_n, pm_d))
                                    : si \in 1..(SN - 1) }] :
        \A si \in 1..(SN - 1) :
            d[si] \in Multinomial(Pn(si) * Pn(si), CeilMul(Pn(si) * Pn(si), pm_n, pm_d)) }

\* cur_l before scale si: the tokens of scales 1..si-1
RECURSIVE CurL(_)
CurL(si) == IF si <= 1 THEN 0 ELSE CurL(si - 1) + Pn(si - 1) * Pn(si - 1)

\* idx_to_mask: per scale 1..SN-1 the drawn positions plus cur_l (lines 364-374)
IdxToMask(draws) == Vec(SN - 1, LAMBDA si : Vec(Len(draws[si]), LAMBDA k : draws[si][k] + CurL(si)))

\* idxBl_to_mask_input: lines 355-389, from scale si on (the draws do not enter the maps)
RECURSIVE MaskInputLoop(_, _, _, _, _, _)
MaskInputLoop(gt, E, share, halves, si, next_scales) ==
    IF si = SN THEN [err |-> "none", at |-> si, next_scales |-> next_scales]
    ELSE LET B  == Len(gt[1])
             pn == Pn(si)
         IN  IF ~CanViewAs(gt[si + 1], B, pn)
             THEN [err |-> "RuntimeError", at |-> si, next_scales |-> next_scales]
             ELSE LET h == Bicubic(LookupAs(gt[si + 1], B, pn, E), HW, HW)
                  IN  MaskInputLoop(gt, E, share, halves, si + 1,
                          Append(next_scales, Tokens(AreaInterp(QuantResi(share, halves, si, SN, h), pn, pn))))

\* idxBl_to_mask_input(gt_ms_idx_Bl, p_mask): the concatenated sequence
IdxBlToMaskInput(gt, E, share, halves) ==
    LET r == MaskInputLoop(gt, E, share, halves, 1, <<>>)
    IN  [err |-> r.err, at |-> r.at,
         value |-> IF r.err = "none" THEN CatDim1(r.next_scales) ELSE <<>>]

\* index lists the model passes: every combination of batch sizes 1 and 2 over the scales
BatchSizes == {1, 2}

GtList(bs) == Vec(SN, LAMBDA s : Vec(bs[s], LAMBDA b : Vec(Pn(s - 1) * Pn(s - 1), LAMBDA k : (b + k + s) % 2)))

GtLists == { GtList(bs) : bs \in [1..SN -> BatchSizes] }

\* p_mask values the model passes, as fractions <<numerator, denominator>>
PMasks == { <<1, 2>> }

\* the last call returned the index list of f_BChw under the module's own pyramid
HoldsIdxList ==
    /\ ret_ut.op = "f_to_idx" /\ ret_ut.err = "none"
    /\ ~ret_ut.to_fhat
    /\ ret_ut.supplied = <<>>

\* index lists a caller may pass on: the synthetic ones, and the list f_to_idxBl_or_fhat
\* just returned
ArgLists == GtLists \cup (IF HoldsIdxList THEN {ret_ut.list} ELSE {})

\* a caller takes the result of one utility call before it makes the next; the list
\* f_to_idxBl_or_fhat returned may be passed on
UtilReady == pc = "idle" /\ (ret_ut = NoRet \/ HoldsIdxList)

EmbedToFhatCall ==
    /\ UtilReady
    /\ \E gt \in ArgLists, all_to_max_scale \in BOOLEAN, last_one \in BOOLEAN :
       \E r \in {EmbedToFhat(LookupAll(gt, embedding), share_quant_resi, quant_resi_halves, all_to_max_scale)} :
              ret_ut' = [op |-> "embed_to_fhat", err |-> r.err, at |-> r.at, gt |-> gt,
                         of_input |-> (HoldsIdxList /\ gt = ret_ut.list),
                         all_to_max_scale |-> all_to_max_scale, last_one |-> last_one,
                         value |-> IF r.err # "none" THEN <<>> ELSE IF last_one THEN r.f_hat ELSE r.ls,
                         f_hat |-> IF r.err = "none" THEN r.f_hat ELSE <<>>,
                         ls |-> IF r.err = "none" THEN r.ls ELSE <<>>]
    /\ UNCHANGED <<config_vars, call_vars, module_vars, training, f_BChw, pc, fw, fi, pre, ret_fw>>

IdxBlToNsInputOn(lists) ==
    /\ UtilReady
    /\ \E gt \in lists :
       \E r \in {IdxBlToNsInput(gt, embedding, share_quant_resi, quant_resi_halves)} :
              ret_ut' = [op |-> "idxBl_to_ns_input", err |-> r.err, at |-> r.at, gt |-> gt,
                         has_value |-> r.has_value, value |-> r.value]
    /\ UNCHANGED <<config_vars, call_vars, module_vars, training, f_BChw, pc, fw, fi, pre, ret_fw>>

IdxBlToNsInputCall == IdxBlToNsInputOn(ArgLists)

IdxBlToMaskInputOn(lists, p_masks) ==
    /\ UtilReady
    /\ \E gt \in lists, pm \in p_masks :
       \E r \in {IdxBlToMaskInput(gt, embedding, share_quant_resi, quant_resi_halves)} :
       \E draws \in (IF r.err = "none" THEN MaskDraws(pm[1], pm[2]) ELSE {<<>>}) :
              ret_ut' = [op |-> "idxBl_to_mask_input", err |-> r.err, at |-> r.at, gt |-> gt,
                         p_mask |-> pm, value |-> r.value,
                         idx_to_mask |-> IF r.err = "none" THEN IdxToMask(draws) ELSE <<>>]
    /\ UNCHANGED <<config_vars, call_vars, module_vars, training, f_BChw, pc, fw, fi, pre, ret_fw>>

IdxBlToMaskInputCall == IdxBlToMaskInputOn(ArgLists, PMasks)

-----------------------------------------------------------------------------
(* forward, one scale in the steps that the non-blocking reduction separates.
   handler.state is the state of the reduction of the running scale: "none" (not
   issued), "pending" (issued), "done" (the collective has written the sum into
   hit_V), "waited" (handler.wait() returned); handler.buffer is hit_V; handler.orphans
   counts the reductions in flight whose handle a failed call dropped. *)

\* idx_N of the running scale: lines 110-139
ScaleIdxN ==
    LET last == fw.si = SN - 1
        pn   == v_patch_nums[fw.si + 1]
    IN  NearestIdx(Flatten(IF ~last THEN AreaInterp(fw.f_rest, pn, pn) ELSE AsFrac(fw.f_rest)),
                   embedding, using_znorm)

AsyncForwardCall ==
    /\ handler.orphans < MaxOrphans
    /\ ForwardCallOn(MaxRecordHit, PeerCodes)

\* lines 110-144: the lookup, the bincount and, in distributed training, all_reduce
\* with async_op=True on hit_V
FwLookup ==
    /\ pc = "forward"
    /\ fw.si < SN
    /\ handler.at = "lookup"
    /\ LET local == Bincount(ScaleIdxN, embedding)
           issue == IssuesReduce(training, dist_initialized)
       IN  /\ handler' = [handler EXCEPT !.state = IF issue THEN "pending" ELSE "none",
                                         !.at = "refine", !.buffer = local]
           /\ fw' = [fw EXCEPT !.reduces = @ + (IF issue THEN 1 ELSE 0),
                               !.local_hits = Append(@, local)]
    /\ UNCHANGED <<config_vars, lookups, ar, module_vars, training, f_BChw, pc, fi, pre, ret_fw, ret_ut>>

\* the collective completes on the communication stream and writes the sum over the
\* ranks into hit_V in place
ReduceCompletes ==
    /\ handler.state = "pending"
    /\ handler' = [handler EXCEPT !.state = "done",
                                  !.buffer = AllReduceSum(@, fw.peer, SumSeq(Vec(VocabSize(embedding),
                                                 LAMBDA k : fw.local_hits[Len(fw.local_hits)][k - 1])),
                                                 world_size)]
    /\ UNCHANGED <<config_vars, lookups, ar, module_vars, training, f_BChw, pc, fw, fi, pre, ret_fw, ret_ut>>

\* the reduction of a call that failed completes
OrphanCompletes ==
    /\ handler.orphans > 0
    /\ handler' = [handler EXCEPT !.orphans = @ - 1]
    /\ UNCHANGED <<config_vars, lookups, ar, module_vars, training, f_BChw, pc, fw, fi, pre, ret_fw, ret_ut>>

\* lines 147-159: view, embedding, upsampling, refinement, f_hat and f_rest; hit_V is
\* not touched.  An exception leaves forward with the handle dropped.
FwRefine ==
    /\ pc = "forward"
    /\ handler.at = "refine"
    /\ LET si      == fw.si
           pn      == v_patch_nums[si + 1]
           last    == si = SN - 1
           B       == BOf(f_BChw)
           H       == HOf(f_BChw)
           W       == WOf(f_BChw)
           idx_N   == ScaleIdxN
           viewOK  == Len(idx_N) = B * pn * pn
           idx_Bhw == View(idx_N, B, pn, pn)
           h0      == IF ~last THEN Bicubic(Embed(idx_Bhw, embedding), H, W) ELSE Embed(idx_Bhw, embedding)
           h       == QuantResi(share_quant_resi, quant_resi_halves, si, SN, h0)
           f_hat2  == Accumulate(fw.f_hat, h)
           f_rest2 == SubResidual(fw.f_rest, h)
           err     == IF ~viewOK THEN "RuntimeError"
                      ELSE IF SN = 1 THEN "ZeroDivisionError"
                      ELSE IF ~CanBroadcast(fw.f_hat, h) \/ ~CanBroadcastTo(h, fw.f_rest) THEN "RuntimeError"
                      ELSE "none"
       IN  IF err # "none"
           THEN /\ pc' = "idle"
                /\ ret_fw' = [op |-> "forward", err |-> err, at |-> si, training |-> training,
                              reduces |-> fw.reduces, waits |-> fw.waits]
                /\ fw' = FwIdle
                /\ handler' = [NoHandler EXCEPT !.orphans = handler.orphans +
                                                    (IF handler.state = "pending" THEN 1 ELSE 0)]
                /\ UNCHANGED f_BChw
           ELSE /\ fw' = [fw EXCEPT !.f_rest = f_rest2, !.f_hat = f_hat2, !.hs = Append(@, h),
                                    !.loss_num = @ + SSE(f_hat2, IF FRestSharesInput THEN f_rest2 ELSE f_BChw)]
                /\ f_BChw' = IF FRestSharesInput THEN f_rest2 ELSE f_BChw
                /\ handler' = [handler EXCEPT !.at = IF UpdatesEma(training, dist_initialized)
                                                     THEN "wait" ELSE "update"]
                /\ UNCHANGED <<pc, ret_fw>>
    /\ UNCHANGED <<config_vars, lookups, ar, module_vars, training, fi, pre, ret_ut>>

\* line 162: handler.wait() returns once the collective has completed
FwWait ==
    /\ pc = "forward"
    /\ handler.at = "wait"
    /\ handler.state = "done"
    /\ handler' = [handler EXCEPT !.state = "waited", !.at = "update"]
    /\ fw' = [fw EXCEPT !.waits = @ + 1]
    /\ UNCHANGED <<config_vars, lookups, ar, module_vars, training, f_BChw, pc, fi, pre, ret_fw, ret_ut>>

\* lines 163-173: the EMA row and the counter in distributed training, and the running
\* total vocab_hit_V, all from hit_V
FwUpdate ==
    /\ pc = "forward"
    /\ handler.at = "update"
    /\ LET hit_V == handler.buffer
       IN  /\ fw' = [fw EXCEPT !.si = @ + 1,
                               !.vocab_hit_V = [v \in DOMAIN embedding |-> @[v] + hit_V[v]],
                               !.hits = Append(@, hit_V)]
           /\ IF UpdatesEma(training, dist_initialized)
              THEN /\ ema_vocab_hit_SV' = [ema_vocab_hit_SV EXCEPT
                                              ![fw.si] = EmaRow(record_hit, @, hit_V)]
                   /\ record_hit' = record_hit + 1
              ELSE UNCHANGED <<ema_vocab_hit_SV, record_hit>>
    /\ handler' = [handler EXCEPT !.state = "none", !.at = "lookup", !.buffer = <<>>]
    /\ UNCHANGED <<config_vars, lookups, ar, embedding, training, f_BChw, pc, fi, pre, ret_fw, ret_ut>>

-----------------------------------------------------------------------------
(* Decoding: the caller holds the running reconstruction f_hat and the per-scale
   contributions ms_h and calls the quantizer once per scale.  ar.f_hat is the caller's
   tensor, ar.si the next scale of the autoregressive sequence, ar.last the last return. *)

NextArInputMut(si, sn, f_hat, h_BChw) ==
    LET h == IF si # sn - 1
             THEN QuantResi(share_quant_resi, quant_resi_halves, si, sn, Bicubic(h_BChw, HW, HW))
             ELSE QuantResi(share_quant_resi, quant_resi_halves, si, sn, h_BChw)
    IN  [f_hat  |-> h,
         second |-> IF si # sn - 1 THEN AreaInterp(h, Pn(si + 1), Pn(si + 1)) ELSE h]

\* get_next_autoregressive_input(si, SN, f_hat, h_BChw), lines 400-414: f_hat after
\* f_hat.add_(h), which is also the first output, and the second output
NextArInput(si, sn, f_hat, h_BChw) ==
    LET h      == IF si # sn - 1
                  THEN QuantResi(share_quant_resi, quant_resi_halves, si, sn, Bicubic(h_BChw, HW, HW))
                  ELSE QuantResi(share_quant_resi, quant_resi_halves, si, sn, h_BChw)
        f_hat2 == TAdd(f_hat, h)
    IN  [f_hat  |-> f_hat2,
         second |-> IF si # sn - 1 THEN AreaInterp(f_hat2, Pn(si + 1), Pn(si + 1)) ELSE f_hat2]

NextMaskInputMut(si, sn, f_hat, h_BChw) ==
    LET h  == QuantResi(share_quant_resi, quant_resi_halves, si, sn, Bicubic(h_BChw, HW, HW))
        nx == IF si < sn - 1 THEN si + 1 ELSE si
    IN  [f_hat     |-> f_hat,
         f_hat_int |-> AreaInterp(f_hat, Pn(nx), Pn(nx)),
         h_int     |-> AreaInterp(h, Pn(nx), Pn(nx))]

\* get_next_mask_input(si, SN, f_hat, h_BChw), lines 419-431: the caller's f_hat after
\* the call and the two outputs
NextMaskInput(si, sn, f_hat, h_BChw) ==
    LET h == QuantResi(share_quant_resi, quant_resi_halves, si, sn, Bicubic(h_BChw, HW, HW))
    IN  [f_hat     |-> f_hat,
         f_hat_int |-> AreaInterp(f_hat, Pn(si), Pn(si)),
         h_int     |-> AreaInterp(h, Pn(si), Pn(si))]

\* ground-truth index lists of varied content:
\* token k of sample b of a scale holds code (a + d * (b + k)) mod V
Pattern(a, d, B, n, V) == Vec(B, LAMBDA b : Vec(n, LAMBDA k : (a + d * (b + k)) % V))

SeqLists ==
    { Vec(SN, LAMBDA s : Pattern(c[s][1], IF s = SN THEN 1 ELSE c[s][2],
                                 IF s = SN THEN bl ELSE B, Pn(s - 1) * Pn(s - 1),
                                 VocabSize(embedding)))
      : c \in [1..SN -> (DOMAIN embedding) \X {0, 1}], B \in BatchSizes, bl \in BatchSizes }

\* index lists whose entries all have the batch size of entry 0
DecodeLists == { gt \in SeqLists : \A s \in 1..Len(gt) : Len(gt[s]) = Len(gt[1]) }

\* the caller starts a decoding sequence: f_hat = zeros(B, C, HW, HW)
DecodeStart ==
    /\ pc = "idle"
    /\ ar.op = "none"
    /\ \E gt \in DecodeLists :
          ar' = [op |-> "decoding", si |-> 0, gt |-> gt, ms_h |-> LookupAll(gt, embedding),
                 f_hat |-> Zeros(Len(gt[1]), HW, HW), last |-> NoRet]
    /\ UNCHANGED <<config_vars, lookups, handler, module_vars, training, f_BChw, pc, fw, fi, pre,
                   ret_fw, ret_ut>>

\* the next call of the sequence si = 0, 1, ..., SN-1; the returned f_hat is the tensor
\* passed in, updated in place
GetNextAutoregressiveInput ==
    /\ pc = "idle"
    /\ ar.op = "decoding"
    /\ ar.si < SN
    /\ \E r \in {NextArInput(ar.si, SN, ar.f_hat, ar.ms_h[ar.si + 1])} :
          ar' = [ar EXCEPT !.si = @ + 1, !.f_hat = r.f_hat,
                           !.last = [op |-> "get_next_autoregressive_input", err |-> "none",
                                     si |-> ar.si, before |-> ar.f_hat,
                                     first |-> r.f_hat, second |-> r.second]]
    /\ UNCHANGED <<config_vars, lookups, handler, module_vars, training, f_BChw, pc, fw, fi, pre,
                   ret_fw, ret_ut>>

\* get_next_mask_input for any scale, on the running reconstruction as it stands
GetNextMaskInput ==
    /\ pc = "idle"
    /\ ar.op = "decoding"
    /\ \E si \in 0..(SN - 1) :
       \E r \in {NextMaskInput(si, SN, ar.f_hat, ar.ms_h[si + 1])} :
          ar' = [ar EXCEPT !.f_hat = r.f_hat,
                           !.last = [op |-> "get_next_mask_input", err |-> "none",
                                     si |-> si, before |-> ar.f_hat,
                                     f_hat_int |-> r.f_hat_int, h_int |-> r.h_int]]
    /\ UNCHANGED <<config_vars, lookups, handler, module_vars, training, f_BChw, pc, fw, fi, pre,
                   ret_fw, ret_ut>>

\* the sequence is over and the caller drops its tensors
DecodeEnd ==
    /\ pc = "idle"
    /\ ar.op = "decoding"
    /\ ar.si = SN
    /\ ar' = ArIdle
    /\ UNCHANGED <<config_vars, lookups, handler, module_vars, training, f_BChw, pc, fw, fi, pre,
                   ret_fw, ret_ut>>

-----------------------------------------------------------------------------
(* Specifications *)

InitOn(train, pyramids, configs) ==
    /\ v_patch_nums \in pyramids
    /\ lookups = NoLookups
    /\ handler = NoHandler
    /\ ar = ArIdle
    /\ \E c \in configs :
          /\ using_znorm = c.using_znorm
          /\ share_quant_resi = c.share_quant_resi
          /\ quant_resi_halves = c.quant_resi_halves
          /\ embedding = c.embedding
          /\ ema_vocab_hit_SV = [s \in 0..(SN - 1) |-> [v \in DOMAIN c.embedding |-> 0]]
          /\ pre = [ema |-> [s \in 0..(SN - 1) |-> [v \in DOMAIN c.embedding |-> 0]],
                    record_hit |-> 0, embedding |-> c.embedding,
                    f |-> <<<<<<1, 1>>, <<1, 1>>>>>>, training |-> train]
    /\ \E e \in Envs :
          /\ dist_initialized = e.init
          /\ world_size = e.ws
    /\ training = train
    /\ record_hit = 0
    /\ f_BChw = <<<<<<1, 1>>, <<1, 1>>>>>>
    /\ pc = "idle"
    /\ fw = FwIdle
    /\ fi = FiIdle
    /\ ret_fw = NoRet
    /\ ret_ut = NoRet

InitWith(train) == InitOn(train, {DefaultPatchNums}, Configs)

\* nn.Module starts in training mode
Init == InitWith(TRUE)

Next ==
    \/ SetTraining
    \/ NewInput
    \/ ForwardCall
    \/ ForwardScale
    \/ ForwardReturn

Spec == Init /\ [][Next]_vars

\* The conversion utilities, on a module put in evaluation mode (module.eval())
InitUtil == InitWith(FALSE)

NextUtil ==
    \/ NewInput
    \/ ForwardCall
    \/ ForwardScale
    \/ ForwardReturn
    \/ FToIdxCall
    \/ FToIdxScale
    \/ FToIdxReturn
    \/ EmbedToFhatCall
    \/ IdxBlToNsInputCall
    \/ IdxBlToMaskInputCall

SpecUtil == InitUtil /\ [][NextUtil]_vars

\* A long training run under an initialized process group, on two alternating inputs
EmaInputs == { <<<<<<-3, 1>>, <<1, 1>>>>>>, <<<<<<1, -3>>, <<-3, 5>>>>>> }

InitEma ==
    /\ InitWith(TRUE)
    /\ dist_initialized

\* The input is varied during the first passes only; later passes repeat the last one
NewInputEarly ==
    /\ record_hit < MaxRecordHit
    /\ NewInputFrom(EmaInputs)

NextEma ==
    \/ NewInputEarly
    \/ ForwardCallOn(MaxUpdates, {0})
    \/ ForwardScale
    \/ ForwardReturn

SpecEma == InitEma /\ [][NextEma]_vars

\* self.quant_resi[si / (SN - 1)], as every method of the quantizer evaluates it for a
\* scale si of its pyramid
QuantResiGetItem ==
    /\ pc = "idle"
    /\ \E si \in 0..(SN - 1) :
          IF SN = 1
          THEN lookups' = [last |-> [op |-> "getitem", err |-> "ZeroDivisionError", si |-> si, sn |-> SN],
                           seen |-> lookups.seen]
          ELSE \E u \in {QuantResiIndex(share_quant_resi, si, SN)} :
                  lookups' = [last |-> [op |-> "getitem", err |-> "none", si |-> si, sn |-> SN,
                                        unit |-> u],
                              seen |-> lookups.seen \cup {<<si, SN, u>>}]
    /\ UNCHANGED <<config_vars, module_vars, training, f_BChw, pc, fw, fi, pre, ret_fw, ret_ut,
                   handler, ar>>

\* quantizers of every sharing policy over pyramids of 1..MaxScales scales
TickPyramids == { Vec(S, LAMBDA k : IF k = S THEN 2 ELSE 1) : S \in 1..MaxScales }
TickConfigs ==
    { [using_znorm |-> FALSE, share_quant_resi |-> k, quant_resi_halves |-> 1,
       embedding |-> (0 :> -2 @@ 1 :> 2)] : k \in 0..MaxUnits }

InitTick == InitOn(FALSE, TickPyramids, TickConfigs)

NextTick == QuantResiGetItem

SpecTick == InitTick /\ [][NextTick]_vars

\* The fully-shared and the non-shared quantizer with the same embedding table and
\* refinement weights, over a pyramid of one scale and over one of two scales
OnePyramids == { <<2>>, <<1, 2>> }
OneConfigs ==
    { [using_znorm |-> FALSE, share_quant_resi |-> k, quant_resi_halves |-> 1,
       embedding |-> (0 :> -2 @@ 1 :> 2)] : k \in {0, 1} }

InitOne == InitOn(FALSE, OnePyramids, OneConfigs)

NextOne ==
    \/ NewInput
    \/ ForwardCall
    \/ ForwardScale
    \/ ForwardReturn
    \/ FToIdxCall
    \/ FToIdxScale
    \/ FToIdxReturn

SpecOne == InitOne /\ [][NextOne]_vars

\* The teacher-forcing and masking utilities and the decoding steps, on two pyramids
SeqPyramids == { <<1, 1, 2>>, <<1, 2, 2>> }
SeqConfigs ==
    { [using_znorm |-> FALSE, share_quant_resi |-> k, quant_resi_halves |-> 1,
       embedding |-> (0 :> -2 @@ 1 :> 2)] : k \in {0, 2} }
SeqPMasks == { <<1, 2>>, <<1, 3>>, <<1, 1>> }

InitSeq == InitOn(FALSE, SeqPyramids, SeqConfigs)

NextSeq ==
    \/ NewInputFrom(EmaInputs)
    \/ IdxBlToNsInputOn(SeqLists)
    \/ IdxBlToMaskInputOn(GtLists, SeqPMasks)

SpecSeq == InitSeq /\ [][NextSeq]_vars

\* Training passes in the steps the reduction separates, on inputs of the pyramid's
\* resolution and of another one
AsyncInputs == { <<<<<<-3, 1>>, <<1, 1>>>>>>, <<<<<<-3, 1>>>>>> }

InitAsync == InitWith(TRUE)

NextAsync ==
    \/ NewInputFrom(AsyncInputs)
    \/ AsyncForwardCall
    \/ FwLookup
    \/ ReduceCompletes
    \/ OrphanCompletes
    \/ FwRefine
    \/ FwWait
    \/ FwUpdate
    \/ ForwardReturn

SpecAsync == InitAsync /\ [][NextAsync]_vars

\* Decoding sequences over the pyramids and quantizers of SpecSeq
InitDecode == InitOn(FALSE, SeqPyramids, SeqConfigs)

NextDecode ==
    \/ DecodeStart
    \/ GetNextAutoregressiveInput
    \/ GetNextMaskInput
    \/ DecodeEnd

SpecDecode == InitDecode /\ [][NextDecode]_vars

-----------------------------------------------------------------------------
(* Properties *)

\* C1: round trip.  For an input at the resolution of the last pyramid entry, the
\* indices of f_to_idxBl_or_fhat(to_fhat=False), looked up per scale and passed to
\* embed_to_fhat(all_to_max_scale=True, last_one=True), give the f_hat that forward
\* computes for the same input in evaluation mode.
C1_RoundTrip ==
    ( /\ ret_fw.op = "forward" /\ ret_fw.at = SN /\ ~ret_fw.training
      /\ ret_ut.op = "embed_to_fhat" /\ ret_ut.of_input
      /\ ret_ut.all_to_max_scale /\ ret_ut.last_one )
    => /\ ret_ut.err = "none"
       /\ ret_ut.value = ret_fw.f_hat

C1_Witness ==
    /\ ret_fw.op = "forward" /\ ret_fw.err = "none" /\ ~ret_fw.training
    /\ ret_ut.op = "embed_to_fhat" /\ ret_ut.of_input
    /\ ret_ut.all_to_max_scale /\ ret_ut.last_one
    /\ BOf(f_BChw) = 2
    /\ ret_ut.value # Zeros(2, HW, HW)

\* C2: residual bookkeeping.  In forward and in f_to_idxBl_or_fhat, after every scale
\* f_hat is the sum of the refined, upsampled contributions of the scales so far,
\* f_rest is the original input minus that sum, and f_hat + f_rest is the input.
C2_ResidualBookkeeping ==
    /\ pc = "forward" =>
          LET f0   == pre.f
              S[k \in 0..Len(fw.hs)] ==
                  IF k = 0 THEN Zeros(BOf(f0), HOf(f0), WOf(f0)) ELSE TAdd(S[k - 1], fw.hs[k])
              sum  == S[Len(fw.hs)]
          IN  /\ Len(fw.hs) = fw.si
              /\ fw.f_hat = sum
              /\ fw.f_rest = TSub(f0, sum)
              /\ TAdd(fw.f_hat, fw.f_rest) = f0
    /\ pc = "f_to_idx" =>
          LET f0   == f_BChw
              S[k \in 0..Len(fi.hs)] ==
                  IF k = 0 THEN Zeros(BOf(f0), HOf(f0), WOf(f0)) ELSE TAdd(S[k - 1], fi.hs[k])
              sum  == S[Len(fi.hs)]
          IN  /\ Len(fi.hs) = fi.si
              /\ fi.f_hat = sum
              /\ fi.f_rest = TSub(f0, sum)
              /\ TAdd(fi.f_hat, fi.f_rest) = f0

C2_Witness ==
    /\ pc = "forward" /\ fw.si = SN
    /\ BOf(pre.f) = 2
    /\ fw.f_hat # Zeros(2, HW, HW)
    /\ fw.f_rest # Zeros(2, HW, HW)

\* C3: f_to_idxBl_or_fhat with an explicit pyramid.  A final entry other than the input's
\* (H, W) fails with an assertion error before any scale; a matching final entry returns
\* one entry per supplied scale, entry i holding h_i * w_i indices per sample, each a
\* code of the vocabulary.
C3_ExplicitPyramid ==
    ret_ut.op = "f_to_idx" =>
        LET hws == ret_ut.patch_hws
        IN  IF hws[Len(hws)] # <<HOf(f_BChw), WOf(f_BChw)>>
            THEN ret_ut.err = "AssertionError" /\ ret_ut.at = 0
            ELSE /\ ret_ut.err = "none"
                 /\ ~ret_ut.to_fhat =>
                       /\ Len(ret_ut.list) = Len(hws)
                       /\ \A i \in 1..Len(hws) :
                             /\ Len(ret_ut.list[i]) = BOf(f_BChw)
                             /\ \A b \in 1..BOf(f_BChw) :
                                   /\ Len(ret_ut.list[i][b]) = hws[i][1] * hws[i][2]
                                   /\ \A k \in 1..Len(ret_ut.list[i][b]) :
                                         ret_ut.list[i][b][k] \in DOMAIN embedding

\* C4: forward on an input whose (H, W) is not the final pyramid entry fails before any
\* scale is processed, leaving the EMA histogram and the update counter as they were.
C4_MismatchFailsFirst ==
    /\ (pc = "forward" /\ <<HOf(pre.f), WOf(pre.f)>> # <<HW, HW>>) =>
          /\ fw.si = 0
          /\ ema_vocab_hit_SV = pre.ema /\ record_hit = pre.record_hit
    /\ (ret_fw.op = "forward" /\ <<HOf(pre.f), WOf(pre.f)>> # <<HW, HW>>) =>
          /\ ret_fw.err # "none" /\ ret_fw.at = 0
          /\ ema_vocab_hit_SV = pre.ema /\ record_hit = pre.record_hit

\* C5: a per-scale list with an entry whose batch size differs from entry 0's makes
\* embed_to_fhat, idxBl_to_ns_input and idxBl_to_mask_input fail.
C5_BatchMismatchFails ==
    ( /\ ret_ut.op \in {"embed_to_fhat", "idxBl_to_ns_input", "idxBl_to_mask_input"}
      /\ \E s \in 1..Len(ret_ut.gt) : Len(ret_ut.gt[s]) # Len(ret_ut.gt[1]) )
    => ret_ut.err # "none"

\* C6: EMA regimes.  One counter counts the row updates of all scales and passes; it
\* moves by exactly 1 with each row update.  Update 1 copies the hit counts, updates
\* 2..100 blend 0.9 / 0.1, updates from 101 on blend 0.99 / 0.01.
C6_EmaRegimes ==
    [][ IF pc = "forward" /\ pc' = "forward" /\ fw'.si = fw.si + 1
        THEN LET n   == record_hit + 1
                 row == ema_vocab_hit_SV[fw.si]
                 hit == fw'.hits[fw'.si]
             IN  /\ record_hit' = n
                 /\ \A s \in DOMAIN ema_vocab_hit_SV :
                       s # fw.si => ema_vocab_hit_SV'[s] = ema_vocab_hit_SV[s]
                 /\ ema_vocab_hit_SV'[fw.si] =
                       [v \in DOMAIN row |->
                           IF n = 1 THEN 1000 * hit[v]
                           ELSE IF n <= 100 THEN (9 * row[v] + 1000 * hit[v]) \div 10
                           ELSE (99 * row[v] + 1000 * hit[v]) \div 100]
        ELSE UNCHANGED <<ema_vocab_hit_SV, record_hit>> ]_vars

C6_Witness ==
    /\ record_hit = 150
    /\ pc = "forward"

\* C7: a training forward pass updates the EMA row of every scale once and moves the
\* counter once per scale, with the summed hit counts under an initialized process group
\* and the local hit counts otherwise.
C7_TrainingUpdatesEveryRow ==
    (ret_fw.op = "forward" /\ ret_fw.training /\ ret_fw.at = SN) =>
        /\ record_hit = pre.record_hit + SN
        /\ \A s \in 0..(SN - 1) :
              ema_vocab_hit_SV[s] =
                  EmaRow(pre.record_hit + s, pre.ema[s],
                         IF dist_initialized THEN ret_fw.hits[s + 1] ELSE ret_fw.local_hits[s + 1])

\* C8: without an initialized process group forward issues no cross-process operation
\* and completes normally.
C8_NoDistNeeded ==
    (ret_fw.op = "forward" /\ ~dist_initialized /\ <<HOf(pre.f), WOf(pre.f)>> = <<HW, HW>>) =>
        /\ ret_fw.err = "none"
        /\ ret_fw.reduces = 0

\* C9: a forward pass in evaluation mode leaves the EMA histogram, the update counter,
\* the embedding table and the caller's input as they were and issues no reduction.
C9_EvalNoSideEffects ==
    /\ (pc = "forward" /\ ~training) =>
          /\ ema_vocab_hit_SV = pre.ema /\ record_hit = pre.record_hit
          /\ embedding = pre.embedding /\ f_BChw = pre.f
          /\ fw.reduces = 0
    /\ (ret_fw.op = "forward" /\ ~ret_fw.training) =>
          /\ ema_vocab_hit_SV = pre.ema /\ record_hit = pre.record_hit
          /\ embedding = pre.embedding /\ f_BChw = pre.f
          /\ ret_fw.reduces = 0

C9_Witness ==
    /\ ret_fw.op = "forward" /\ ~ret_fw.training /\ ret_fw.err = "none"
    /\ dist_initialized
    /\ pre.record_hit > 0
    /\ \E s \in DOMAIN pre.ema : \E v \in DOMAIN pre.ema[s] : pre.ema[s][v] > 0

\* C10 as stated: the usage of scale s is 100 * #{v : ema[s][v] > margin} / vocab_size
\* with margin = world_size * (H * W) / vocab_size * 0.08, one entry per scale, and no
\* list without ret_usages.
C10_UsageAsStated ==
    (ret_fw.op = "forward" /\ ret_fw.err = "none") =>
        IF ret_fw.ret_usages
        THEN /\ ret_fw.has_usages
             /\ Len(ret_fw.usages) = SN
             /\ \A s \in 1..SN :
                   LET row == ema_vocab_hit_SV[s - 1]
                       V   == Cardinality(DOMAIN row)
                       HxW == HOf(f_BChw) * WOf(f_BChw)
                   IN  ret_fw.usages[s] =
                          Frac(100 * Cardinality({v \in DOMAIN row : row[v] * V > 80 * world_size * HxW}), V)
        ELSE ~ret_fw.has_usages

\* C10, amended: the usage of scale s is 100 * #{v : ema[s][v] >= margin} / vocab_size
\* with margin = world_size * (B * H * W) / vocab_size * 0.08, one entry per scale, and
\* no list without ret_usages.
C10_Usage ==
    (ret_fw.op = "forward" /\ ret_fw.err = "none") =>
        IF ret_fw.ret_usages
        THEN /\ ret_fw.has_usages
             /\ Len(ret_fw.usages) = SN
             /\ \A s \in 1..SN :
                   LET row == ema_vocab_hit_SV[s - 1]
                       V   == Cardinality(DOMAIN row)
                       BHW == BOf(f_BChw) * HOf(f_BChw) * WOf(f_BChw)
                   IN  ret_fw.usages[s] =
                          Frac(100 * Cardinality({v \in DOMAIN row : row[v] * V >= 80 * world_size * BHW}), V)
        ELSE ~ret_fw.has_usages

C10_Witness ==
    /\ ret_fw.op = "forward" /\ ret_fw.err = "none"
    /\ ret_fw.ret_usages
    /\ BOf(f_BChw) = 2
    /\ \E s \in 1..SN : ret_fw.usages[s] \notin {Frac(0, 1), Frac(100, 1)}

\* C11: partially-shared tick selection.  With K units the ticks are K evenly spaced
\* values from 1/(3K) (K = 4) or 1/(2K) (any other K) to 1 minus that; a lookup at t
\* returns the unit of the tick nearest to t, the lower unit on a tie, and the same unit
\* on every call; t = 0.5 with K = 4 returns unit 1.
C11_TickSelection ==
    share_quant_resi >= 2 =>
        LET K      == share_quant_resi
            c      == IF K = 4 THEN 3 ELSE 2
            den    == c * K * (K - 1)
            num(k) == (K - 1) + k * (c * K - 2)
            near(tn, td) ==
                CHOOSE k \in 0..(K - 1) :
                    /\ \A j \in 0..(K - 1) :
                          Abs(num(k) * td - tn * den) <= Abs(num(j) * td - tn * den)
                    /\ \A j \in 0..(k - 1) :
                          Abs(num(j) * td - tn * den) > Abs(num(k) * td - tn * den)
        IN  /\ Len(Ticks(K)) = K
            /\ \A k \in 0..(K - 1) :
                  LET x == Ticks(K)[k + 1]
                      a == MulSmall(x.m, den)
                      b == Shl(LimbsOf(num(k)), 0 - x.e)
                  IN  CmpLimbs(IF CmpLimbs(a, b) >= 0 THEN SubLimbs(a, b) ELSE SubLimbs(b, a),
                               LimbsOf(4 * den)) <= 0
            /\ \A r \in lookups.seen : r[3] = near(r[1], r[2] - 1)
            /\ \A r1, r2 \in lookups.seen : (r1[1] = r2[1] /\ r1[2] = r2[2]) => r1[3] = r2[3]
            /\ (K = 4 /\ lookups.last.op = "getitem" /\ lookups.last.err = "none"
                      /\ 2 * lookups.last.si = lookups.last.sn - 1)
               => lookups.last.unit = 1

\* C13: the non-shared policy with one unit per scale of an S-scale pyramid (S >= 2)
\* applies unit i at scale i, so no two scales share a unit and no unit is unused.
C13_NonSharedOwnUnit ==
    (share_quant_resi = 0 /\ SN >= 2) =>
        /\ \A r \in lookups.seen : r[3] = r[1]
        /\ \A i \in 0..(SN - 1) : QuantResiIndex(share_quant_resi, i, SN) = i
        /\ (lookups.last.op = "getitem") => lookups.last.err = "none"

C13_Witness ==
    /\ share_quant_resi = 0
    /\ SN = 4
    /\ Cardinality(lookups.seen) = SN
    /\ lookups.last.op = "getitem" /\ lookups.last.unit = 3

\* C12: over a pyramid of exactly one scale the fully-shared quantizer (share_quant_resi
\* = 1) and the non-shared one, with the same embedding table, refinement weights and
\* input, both complete forward and f_to_idxBl_or_fhat, and both return what the single
\* unit gives: the refined embedding of the nearest codes of the input.
C12_OneScaleEquivalence ==
    (SN = 1 /\ share_quant_resi \in {0, 1} /\ <<HOf(f_BChw), WOf(f_BChw)>> = <<HW, HW>>) =>
        LET idx_N == NearestIdx(Flatten(AsFrac(f_BChw)), embedding, using_znorm)
            h     == PhiApply(0, quant_resi_halves,
                              Embed(View(idx_N, BOf(f_BChw), HW, HW), embedding))
        IN  /\ (ret_fw.op = "forward" /\ dist_initialized) =>
                   /\ ret_fw.err = "none"
                   /\ ret_fw.f_hat = h
            /\ (ret_ut.op = "f_to_idx" /\ ret_ut.supplied = <<>>) =>
                   /\ ret_ut.err = "none"
                   /\ Len(ret_ut.list) = 1
                   /\ ret_ut.to_fhat => ret_ut.list[1] = h
                   /\ ~ret_ut.to_fhat => ret_ut.list[1] = ReshapeBl(idx_N, BOf(f_BChw), HW * HW)

\* the part of a concatenated sequence that belongs to scale q (q >= 1)
Segment(value, q) ==
    Vec(Len(value), LAMBDA b : SubSeq(value[b], CurL(q) + 1, CurL(q) + Pn(q) * Pn(q)))

\* scales 0..i of two index lists are the same
AgreeUpTo(gt, gt2, i) == \A s \in 0..i : gt2[s + 1] = gt[s + 1]

\* C14: teacher-forcing causality of idxBl_to_ns_input.  The segment for the query of
\* scale i+1 depends only on the ground-truth indices of scales 0..i: a second call on a
\* list that agrees on scales 0..i returns the same segments for the queries of scales
\* 1..i+1, and the indices of the last scale are never read, so that a list differing
\* in the last scale only gives the same result whatever that entry holds.
C14_TeacherForcingCausal ==
    (ret_ut.op = "idxBl_to_ns_input" /\ ret_ut.err = "none") =>
        \A gt2 \in SeqLists :
            /\ \A i \in 0..(SN - 2) :
                  AgreeUpTo(ret_ut.gt, gt2, i) =>
                     \A r2 \in {IdxBlToNsInput(gt2, embedding, share_quant_resi, quant_resi_halves)} :
                        r2.err = "none" =>
                           \A q \in 1..(i + 1) : Segment(r2.value, q) = Segment(ret_ut.value, q)
            /\ AgreeUpTo(ret_ut.gt, gt2, SN - 2) =>
                  \A r2 \in {IdxBlToNsInput(gt2, embedding, share_quant_resi, quant_resi_halves)} :
                     r2.err = "none" /\ r2.value = ret_ut.value

\* a call returned whose list has a neighbour that differs from scale 1 on and gives
\* another segment for scale 2, and a neighbour that differs in the last scale only
C14_Witness ==
    /\ ret_ut.op = "idxBl_to_ns_input" /\ ret_ut.err = "none"
    /\ ret_ut.gt \in SeqLists
    /\ \E gt2 \in SeqLists :
          /\ AgreeUpTo(ret_ut.gt, gt2, 0) /\ gt2[2] # ret_ut.gt[2]
          /\ \E r2 \in {IdxBlToNsInput(gt2, embedding, share_quant_resi, quant_resi_halves)} :
                /\ r2.err = "none"
                /\ Segment(r2.value, 1) = Segment(ret_ut.value, 1)
                /\ Segment(r2.value, 2) # Segment(ret_ut.value, 2)
    /\ \E gt3 \in SeqLists :
          /\ AgreeUpTo(ret_ut.gt, gt3, SN - 2)
          /\ gt3[SN] # ret_ut.gt[SN] /\ Len(gt3[SN]) # Len(ret_ut.gt[SN])

\* C15: masking coverage of idxBl_to_mask_input.  There is one set of masked positions
\* per scale 1..S-1 and none for scale 0; the set of a scale with n = pn * pn tokens has
\* exactly ceil(n * p_mask) positions, no two equal, each a global position inside the
\* scale's range of the concatenated sequence; the sets of different scales are disjoint.
C15_MaskingCoverage ==
    (ret_ut.op = "idxBl_to_mask_input" /\ ret_ut.err = "none") =>
        LET sets == ret_ut.idx_to_mask
            pm   == ret_ut.p_mask
        IN  /\ Len(sets) = SN - 1
            /\ \A si \in 1..(SN - 1) :
                  LET n == Pn(si) * Pn(si)
                  IN  /\ Len(sets[si]) * pm[2] >= n * pm[1]
                      /\ (Len(sets[si]) - 1) * pm[2] < n * pm[1]
                      /\ \A a, b \in 1..Len(sets[si]) : a # b => sets[si][a] # sets[si][b]
                      /\ \A a \in 1..Len(sets[si]) :
                            /\ sets[si][a] >= CurL(si)
                            /\ sets[si][a] < CurL(si) + n
                            /\ sets[si][a] < Len(ret_ut.value[1])
            /\ \A si, sj \in 1..(SN - 1) :
                  si # sj => \A a \in 1..Len(sets[si]), b \in 1..Len(sets[sj]) :
                                sets[si][a] # sets[sj][b]

\* half of the four tokens of each of two scales masked, the second scale's positions
\* drawn in descending order and offset by the first scale's four tokens
C15_Witness ==
    /\ ret_ut.op = "idxBl_to_mask_input" /\ ret_ut.err = "none"
    /\ ret_ut.p_mask = <<1, 2>>
    /\ v_patch_nums = <<1, 2, 2>>
    /\ Len(ret_ut.idx_to_mask[1]) = 2
    /\ ret_ut.idx_to_mask[2] = <<7, 4>>

\* the reductions in flight: the one of the running scale and those a failed call left
Outstanding == handler.orphans + (IF handler.state = "pending" THEN 1 ELSE 0)

\* C16: asynchronous reduction ordering in distributed training.  Between issuing the
\* reduction of a scale and waiting on its handle the issuing process neither reads nor
\* writes hit_V; the wait has completed before hit_V is used for the EMA row or added
\* to the running total, which therefore take the sum over the ranks; every issued
\* reduction is waited on exactly once; at most one reduction is outstanding at any time.
C16_AsyncOrdering ==
    /\ [][ (pc' = "forward" /\ handler.at \in {"refine", "wait"} /\ handler'.at # handler.at)
              => handler'.buffer = handler.buffer ]_vars
    /\ [] ( (pc = "forward" /\ handler.at = "update" /\ IssuesReduce(training, dist_initialized)) =>
                /\ handler.state = "waited"
                /\ \A l \in {fw.local_hits[Len(fw.local_hits)]} :
                      handler.buffer = AllReduceSum(l, fw.peer,
                                           SumSeq(Vec(VocabSize(embedding), LAMBDA k : l[k - 1])),
                                           world_size) )
    /\ [] ( pc = "forward" => fw.waits <= fw.reduces /\ fw.reduces <= fw.waits + 1 )
    /\ [] ( (pc = "idle" /\ ret_fw.op = "forward") => ret_fw.reduces = ret_fw.waits )
    /\ [] ( Outstanding <= 1 )

\* the sum of the refined contributions of scales 0..si, each upsampled to the full
\* resolution (the last one is at full resolution already)
RECURSIVE ContribSum(_, _)
ContribSum(ms_h, si) ==
    LET h == QuantResi(share_quant_resi, quant_resi_halves, si, SN,
                       IF si < SN - 1 THEN Bicubic(ms_h[si + 1], HW, HW) ELSE ms_h[si + 1])
    IN  IF si = 0 THEN h ELSE TAdd(ContribSum(ms_h, si - 1), h)

\* C17: the autoregressive decode sequence.  Calling get_next_autoregressive_input for
\* si = 0..S-1 in order from an all-zero f_hat, passing back the returned f_hat, leaves
\* f_hat after step si equal to the sum of the refined full-resolution contributions of
\* scales 0..si, which is entry si of embed_to_fhat(all_to_max_scale=True) on the same
\* contributions; the second output is f_hat area-downsampled to the resolution of
\* scale si+1 when si < S-1 and f_hat itself when si = S-1.
C17_DecodeSequence ==
    (ar.op = "decoding" /\ ar.si >= 1) =>
        /\ ar.f_hat = ContribSum(ar.ms_h, ar.si - 1)
        /\ \A e \in {EmbedToFhat(ar.ms_h, share_quant_resi, quant_resi_halves, TRUE)} :
              e.err = "none" /\ ar.f_hat = e.ls[ar.si]
        /\ ar.last.op = "get_next_autoregressive_input" =>
              /\ ar.last.si = ar.si - 1
              /\ ar.last.first = ar.f_hat
              /\ ar.last.second = IF ar.last.si < SN - 1
                                  THEN AreaInterp(ar.f_hat, Pn(ar.si), Pn(ar.si))
                                  ELSE ar.f_hat
              /\ ar.last.si < SN - 1 =>
                    HOf(ar.last.second) = Pn(ar.si) /\ WOf(ar.last.second) = Pn(ar.si)

\* the whole sequence was run on contributions that differ between the scales, and the
\* last call returned the full reconstruction twice
C17_Witness ==
    /\ ar.op = "decoding" /\ ar.si = SN
    /\ ar.last.op = "get_next_autoregressive_input" /\ ar.last.si = SN - 1
    /\ ar.last.second = ar.last.first
    /\ ar.f_hat # ar.last.before
    /\ ar.f_hat # Zeros(Len(ar.gt[1]), HW, HW)
    /\ Len(ar.gt[1]) = 2
    /\ ar.gt[1] # ar.gt[2]

\* C18: get_next_mask_input leaves the caller's running reconstruction f_hat as it was
\* for every scale index si, and both returned maps, the running reconstruction and
\* the refined new contribution, have the resolution of scale si, not of scale si+1.
C18_MaskInputCurrentScale ==
    (ar.op = "decoding" /\ ar.last.op = "get_next_mask_input") =>
        /\ ar.f_hat = ar.last.before
        /\ ar.si >= 1 => ar.f_hat = ContribSum(ar.ms_h, ar.si - 1)
        /\ ar.si = 0 => ar.f_hat = Zeros(Len(ar.gt[1]), HW, HW)
        /\ Shape(ar.last.f_hat_int) = <<Len(ar.gt[1]), Pn(ar.last.si), Pn(ar.last.si)>>
        /\ Shape(ar.last.h_int) = <<Len(ar.gt[1]), Pn(ar.last.si), Pn(ar.last.si)>>
        /\ ar.last.f_hat_int = AreaInterp(ar.f_hat, Pn(ar.last.si), Pn(ar.last.si))
        /\ ar.last.h_int =
              AreaInterp(QuantResi(share_quant_resi, quant_resi_halves, ar.last.si, SN,
                                   Bicubic(ar.ms_h[ar.last.si + 1], HW, HW)),
                         Pn(ar.last.si), Pn(ar.last.si))

\* a call for a scale whose resolution differs from the next scale's, made on a
\* non-zero running reconstruction
C18_Witness ==
    /\ ar.op = "decoding" /\ ar.last.op = "get_next_mask_input"
    /\ ar.si >= 1
    /\ ar.f_hat # Zeros(Len(ar.gt[1]), HW, HW)
    /\ ar.last.si < SN - 1
    /\ Pn(ar.last.si) # Pn(ar.last.si + 1)
    /\ HOf(ar.last.f_hat_int) = Pn(ar.last.si)

=============================================================================
